---- MODULE Spec2Model ----
(***************************************************************************)
(* The scoring worker of kjudge (server/worker: Score and its helpers),    *)
(* for the submissions of one user on one problem.                         *)
(*                                                                         *)
(* float64 values are modelled as exact fixed-point numbers: a score x is  *)
(* the integer x * ScoreDen, a test result r is the integer r * ResultDen. *)
(* Every value the model computes is exactly representable in that scale.  *)
(* time.Time / time.Duration values are whole seconds.                     *)
(***************************************************************************)
EXTENDS Integers, Sequences, FiniteSets, Bags, TLC

\* Bounds of the model.
MaxSubs == 2
MaxJobs == 3

\* time.Minute, in seconds.
Minute == 60

\* models.Contest: StartTime and EndTime.
Contest == [StartTime |-> 0, EndTime |-> 200 * Minute]

ContestTime == Contest.EndTime - Contest.StartTime

\* Scale of a models.TestResult score: the results are the multiples of
\* 1/ResultDen in [0,1].
ResultDen == 2

\* Scale of a float64 score.
ScoreDen == ResultDen * ResultDen * 100 * ContestTime

VerdictCompileError == "Compile Error"
VerdictScored == "Scored"
VerdictAccepted == "Accepted"
\* The verdict of a submission nobody has scored yet.
VerdictUnset == "..."

ScoringModes == {"Once", "Last", "Best", "Decay"}
PenaltyPolicies == {"None", "ICPC", "SubmitTime"}

UserID == "u1"
ProblemID == "p1"

\* sql.NullFloat64 / sql.NullInt64
NullFloat64 == [Float64 |-> 0, Valid |-> FALSE]
NullInt64 == [Int64 |-> 0, Valid |-> FALSE]

\* Go's integer division truncates toward zero.
GoDiv(a, b) == IF a >= 0 THEN a \div b ELSE -((-a) \div b)

RECURSIVE SeqSum(_)
SeqSum(s) == IF s = <<>> THEN 0 ELSE Head(s) + SeqSum(Tail(s))

RECURSIVE SeqProd(_)
SeqProd(s) == IF s = <<>> THEN 1 ELSE Head(s) * SeqProd(Tail(s))

RECURSIVE Pow(_, _)
Pow(b, n) == IF n = 0 THEN 1 ELSE b * Pow(b, n - 1)

(***************************************************************************)
(* Problem configurations: models.GetProblemTests returns the test groups  *)
(* (Score = weight, ScoringMode, Tests = the test ids in order).           *)
(***************************************************************************)
TestsOne ==
    << [Score |-> 2, ScoringMode |-> "Sum", Tests |-> <<1>>],
       [Score |-> -1, ScoringMode |-> "Sum", Tests |-> << >>] >>

TestsNone == << >>

\* The configurations of the specifications that submit, run and score.
TestConfigs == {TestsOne, TestsNone}

\* Two tests, in one group or two, in every group scoring mode; with a
\* hidden group (Score < 0) and a group of weight 0.
TestsSum == << [Score |-> 2, ScoringMode |-> "Sum", Tests |-> <<1, 2>>] >>

TestsMinProduct ==
    << [Score |-> 1, ScoringMode |-> "Min", Tests |-> <<1>>],
       [Score |-> 2, ScoringMode |-> "Product", Tests |-> <<2>>] >>

TestsProduct == << [Score |-> 4, ScoringMode |-> "Product", Tests |-> <<1, 2>>] >>

TestsHidden ==
    << [Score |-> 3, ScoringMode |-> "Sum", Tests |-> <<1>>],
       [Score |-> -3, ScoringMode |-> "Sum", Tests |-> <<2>>],
       [Score |-> 0, ScoringMode |-> "Min", Tests |-> << >>] >>

\* The configurations of the specification of one Score call.
ScoreConfigs == {TestsSum, TestsMinProduct, TestsProduct, TestsHidden, TestsNone}

\* The ids of the tests of a configuration.
RECURSIVE TestIDs(_)
TestIDs(tests) ==
    IF tests = <<>> THEN {}
    ELSE {Head(tests).Tests[i] : i \in 1 .. Len(Head(tests).Tests)} \cup TestIDs(Tail(tests))

\* The scores a models.TestResult can carry, in units of 1/ResultDen: a
\* failed test and a passed one, and any multiple of 1/ResultDen in [0,1].
PassFail == {0, ResultDen}
ResultScores == 0 .. ResultDen

\* Submissions are made in order of time: the i-th one 30, 120, 210, ...
\* seconds after Contest.StartTime.
SubmitTime(id) == Contest.StartTime + 30 + 90 * (id - 1)

(***************************************************************************)
(* MissingTests: the tests, in group order, that have no entry in results  *)
(* (results: a function from the test ids that have a result).             *)
(***************************************************************************)
\* The scan of a group stops at its first missing test.
GroupMissingFirst(tg, results) ==
    LET all == SelectSeq(tg.Tests, LAMBDA test : test \notin DOMAIN results)
    IN IF all = <<>> THEN <<>> ELSE <<Head(all)>>

GroupMissing(tg, results) ==
    SelectSeq(tg.Tests, LAMBDA test : test \notin DOMAIN results)

RECURSIVE MissingTests(_, _)
MissingTests(tests, results) ==
    IF tests = <<>> THEN <<>>
    ELSE GroupMissing(Head(tests), results) \o MissingTests(Tail(tests), results)

(***************************************************************************)
(* ScoreGroup: <<score, counts>> of one test group.                        *)
(***************************************************************************)
GroupResults(tg, results) == [i \in 1 .. Len(tg.Tests) |-> results[tg.Tests[i]]]

\* The ratio is lowered to the smallest result: a true minimum.
RECURSIVE SeqMinFrom(_, _)
SeqMinFrom(ratio, s) ==
    IF s = <<>> THEN ratio
    ELSE SeqMinFrom(IF ratio > Head(s) THEN Head(s) ELSE ratio, Tail(s))

RECURSIVE SeqMaxFrom(_, _)
SeqMaxFrom(ratio, s) ==
    IF s = <<>> THEN ratio
    ELSE SeqMaxFrom(IF ratio < Head(s) THEN Head(s) ELSE ratio, Tail(s))

\* A group of weight < 0 is scored like any other, and counts.
ScoreGroupHidden(tg, results) ==
    LET rs == GroupResults(tg, results)
        n == Len(tg.Tests)
    IN CASE tg.ScoringMode = "Sum" ->
              <<(tg.Score * ScoreDen * SeqSum(rs)) \div (ResultDen * n), TRUE>>
         [] tg.ScoringMode = "Min" ->
              <<(tg.Score * ScoreDen * SeqMaxFrom(ResultDen, rs)) \div ResultDen, TRUE>>
         [] tg.ScoringMode = "Product" ->
              <<(tg.Score * ScoreDen * SeqProd(rs)) \div Pow(ResultDen, n), TRUE>>

ScoreGroup(tg, results) ==
    IF tg.Score < 0 THEN <<0, FALSE>>
    ELSE LET rs == GroupResults(tg, results)
             n == Len(tg.Tests)
         IN CASE tg.ScoringMode = "Sum" ->
                   <<(tg.Score * ScoreDen * SeqSum(rs)) \div (ResultDen * n), TRUE>>
              [] tg.ScoringMode = "Min" ->
                   <<(tg.Score * ScoreDen * SeqMaxFrom(ResultDen, rs)) \div ResultDen, TRUE>>
              [] tg.ScoringMode = "Product" ->
                   <<(tg.Score * ScoreDen * SeqProd(rs)) \div Pow(ResultDen, n), TRUE>>

\* Lines 145-151 of Score: the sum of the counting groups' scores, from 0.0.
RECURSIVE SumGroups(_, _)
SumGroups(tests, results) ==
    IF tests = <<>> THEN 0
    ELSE LET sg == ScoreGroup(Head(tests), results)
         IN (IF sg[2] THEN sg[1] ELSE 0) + SumGroups(Tail(tests), results)

(***************************************************************************)
(* scoreOf: <<score, penalty, should_count>>. The nil submission is the    *)
(* record NilSub (ID 0).                                                   *)
(***************************************************************************)
NilSub ==
    [ID |-> 0, CompiledSource |-> FALSE, SubmittedAt |-> 0,
     Score |-> NullFloat64, Penalty |-> NullInt64, Verdict |-> VerdictUnset]

\* The compiled source is not looked at.
scoreOfAnySource(sub) ==
    IF sub.ID = 0 \/ ~sub.Score.Valid \/ ~sub.Penalty.Valid
    THEN <<0, 0, FALSE>>
    ELSE <<sub.Score.Float64, sub.Penalty.Int64, TRUE>>

scoreOf(sub) ==
    IF sub.ID = 0 \/ ~sub.CompiledSource \/ ~sub.Score.Valid \/ ~sub.Penalty.Valid
    THEN <<0, 0, FALSE>>
    ELSE <<sub.Score.Float64, sub.Penalty.Int64, TRUE>>

(***************************************************************************)
(* UpdateVerdict: the verdict of sub under the test groups.                *)
(***************************************************************************)
\* Every group's weight is added, hidden groups too.
RECURSIVE MaxPossibleScoreAll(_)
MaxPossibleScoreAll(tests) ==
    IF tests = <<>> THEN 0
    ELSE Head(tests).Score * ScoreDen + MaxPossibleScoreAll(Tail(tests))

RECURSIVE MaxPossibleScore(_)
MaxPossibleScore(tests) ==
    IF tests = <<>> THEN 0
    ELSE (IF Head(tests).Score > 0 THEN Head(tests).Score * ScoreDen ELSE 0)
         + MaxPossibleScore(Tail(tests))

UpdateVerdict(tests, sub) ==
    LET so == scoreOf(sub)
    IN IF ~so[3] THEN VerdictCompileError
       ELSE IF so[1] = MaxPossibleScore(tests) THEN VerdictAccepted
       ELSE VerdictScored

(***************************************************************************)
(* ComputePenalties: the penalty value of sub, given the user's            *)
(* submissions of the problem in stored order.                             *)
(***************************************************************************)
\* The range index (from 0) of the first submission with sub's ID; 0 if none.
RECURSIVE IndexOf(_, _, _)
IndexOf(subs, id, i) ==
    IF i > Len(subs) THEN 0
    ELSE IF subs[i].ID = id THEN i - 1
    ELSE IndexOf(subs, id, i + 1)

\* The index counts from 1.
ICPCValueFromOne(subs, sub) == 20 * (IndexOf(subs, sub.ID, 1) + 1)

ICPCValue(subs, sub) == 20 * IndexOf(subs, sub.ID, 1)

\* The started minute is dropped: the division without the time.Minute - 1.
SubmitTimeValueFloor(sub) ==
    GoDiv(sub.SubmittedAt - Contest.StartTime, Minute)

SubmitTimeValue(sub) ==
    GoDiv((sub.SubmittedAt - Contest.StartTime) + Minute - 1, Minute)

ComputePenalties(policy, subs, sub) ==
    CASE policy = "None" -> 0
      [] policy = "ICPC" -> ICPCValue(subs, sub) + SubmitTimeValue(sub)
      [] policy = "SubmitTime" -> SubmitTimeValue(sub)

(***************************************************************************)
(* CompareScores: the ProblemResult of the submissions subs under the      *)
(* problem's scoring mode.                                                 *)
(***************************************************************************)
\* The Decay score: math.Min(0.3, (1.0-0.7*elapsed/contestTime)*(1.0-0.1*counted)).
DecayScore(sub, counted) ==
    LET cap == (3 * ScoreDen) \div 10
        val == (10 * ContestTime - 7 * (sub.SubmittedAt - Contest.StartTime))
               * (10 - counted) * (ScoreDen \div (100 * ContestTime))
    IN IF cap < val THEN cap ELSE val

\* The Best comparison is score > which.Score: a tie keeps the earlier one.
CompareStepStrict(mode, subs, i, st) ==
    LET sub == subs[i]
        score == scoreOf(sub)[1]
        whichSub == IF st.which = 0 THEN NilSub ELSE subs[st.which]
        best(sc) == IF st.which = 0 \/ sc > whichSub.Score.Float64
                    THEN [st EXCEPT !.which = i, !.maxScore = sc]
                    ELSE st
    IN CASE mode = "Once" ->
              IF st.which = 0 THEN [st EXCEPT !.which = i, !.maxScore = score] ELSE st
         [] mode = "Last" -> [st EXCEPT !.which = i, !.maxScore = score]
         [] mode = "Decay" -> best(DecayScore(sub, st.counted))
         [] mode = "Best" -> best(score)

\* Once takes the Best comparison: a later, higher score replaces the first.
CompareStepOnceBest(mode, subs, i, st) ==
    LET sub == subs[i]
        score == scoreOf(sub)[1]
        whichSub == IF st.which = 0 THEN NilSub ELSE subs[st.which]
        best(sc) == IF st.which = 0 \/ sc >= whichSub.Score.Float64
                    THEN [st EXCEPT !.which = i, !.maxScore = sc]
                    ELSE st
    IN CASE mode = "Once" -> best(score)
         [] mode = "Last" -> [st EXCEPT !.which = i, !.maxScore = score]
         [] mode = "Decay" -> best(DecayScore(sub, st.counted))
         [] mode = "Best" -> best(score)

\* One iteration of the loop body for a counting submission subs[i].
CompareStep(mode, subs, i, st) ==
    LET sub == subs[i]
        score == scoreOf(sub)[1]
        whichSub == IF st.which = 0 THEN NilSub ELSE subs[st.which]
        best(sc) == IF st.which = 0 \/ sc >= whichSub.Score.Float64
                    THEN [st EXCEPT !.which = i, !.maxScore = sc]
                    ELSE st
    IN CASE mode = "Once" ->
              IF st.which = 0 THEN [st EXCEPT !.which = i, !.maxScore = score] ELSE st
         [] mode = "Last" -> [st EXCEPT !.which = i, !.maxScore = score]
         [] mode = "Decay" -> best(DecayScore(sub, st.counted))
         [] mode = "Best" -> best(score)

RECURSIVE CompareLoop(_, _, _, _)
CompareLoop(mode, subs, i, st) ==
    IF i > Len(subs) THEN st
    ELSE IF ~scoreOf(subs[i])[3] THEN CompareLoop(mode, subs, i + 1, st)
    ELSE LET st2 == CompareStep(mode, subs, i, st)
         IN CompareLoop(mode, subs, i + 1, [st2 EXCEPT !.counted = @ + 1])

CompareScores(mode, subs) ==
    LET st == CompareLoop(mode, subs, 1, [which |-> 0, maxScore |-> 0, counted |-> 0])
        which == IF st.which = 0 THEN NilSub ELSE subs[st.which]
        so == scoreOf(which)
    IN IF ~so[3]
       THEN [BestSubmissionID |-> NullInt64, Penalty |-> 0, Score |-> 0,
             Solved |-> FALSE, ProblemID |-> ProblemID, UserID |-> UserID]
       ELSE [BestSubmissionID |-> [Int64 |-> which.ID, Valid |-> TRUE],
             Penalty |-> so[2], Score |-> st.maxScore,
             Solved |-> (which.Verdict = VerdictAccepted),
             ProblemID |-> ProblemID, UserID |-> UserID]

(***************************************************************************)
(* The storage and the workers.                                            *)
(*   problem    the problem's ScoringMode, PenaltyPolicy and test groups   *)
(*   serialized whether the storage runs one transaction at a time         *)
(*   subs       the user's submissions of the problem, in stored order     *)
(*              (subs[i].ID = i), as committed                             *)
(*   results    the committed test results                                 *)
(*   standing   the problem_results table: the rows of (user, problem)     *)
(*   jobs       the committed job queue, a bag                             *)
(*   wk         per worker: where it is in Score, the in-memory s.Sub, and *)
(*              what its open transaction has written                      *)
(***************************************************************************)
VARIABLES problem, serialized, subs, results, standing, jobs, wk

vars == <<problem, serialized, subs, results, standing, jobs, wk>>

Workers == {"w1", "w2"}

\* models.NewJobRun, models.NewJobScore
NewJobRun(subID, testID) == [Type |-> "run", SubmissionID |-> subID, TestID |-> testID]
NewJobScore(subID) == [Type |-> "score", SubmissionID |-> subID, TestID |-> 0]

RECURSIVE SeqToBag(_)
SeqToBag(s) == IF s = <<>> THEN EmptyBag ELSE SetToBag({Head(s)}) (+) SeqToBag(Tail(s))

\* A worker outside Score. err = "" is the nil error.
IdleWorker ==
    [pc |-> "idle", Sub |-> NilSub, branch |-> "", batch |-> <<>>,
     txSub |-> FALSE, txPr |-> {}, txJobs |-> <<>>, err |-> ""]

\* ScoreContext.TestResults: the submission's results, mapped by test id.
TestResults(subID) ==
    LET mine == {r \in results : r.SubmissionID = subID}
    IN [t \in {r.TestID : r \in mine} |-> (CHOOSE r \in mine : r.TestID = t).Score]

\* models.Submission.Write: the row of the submission is replaced.
SubmissionWrite(rows, sub) == [rows EXCEPT ![sub.ID] = sub]

\* models.ProblemResult.Write: the row of (user, problem) is inserted, or
\* replaced by the one written.
ProblemResultWrite(rows, pr) ==
    {r \in rows : r.UserID # pr.UserID \/ r.ProblemID # pr.ProblemID} \cup {pr}

\* models.GetUserProblemSubmissions inside w's transaction: the committed
\* rows, with the row the transaction itself has written.
TxSubs(w) ==
    IF w.txSub THEN SubmissionWrite(subs, w.Sub) ELSE subs

\* The jobs that are queued, running, or about to be inserted by an open
\* transaction: what MaxJobs caps.
Held(w) == IF w.pc = "idle" THEN 0 ELSE IF Len(w.txJobs) > 0 THEN Len(w.txJobs) ELSE 1

RECURSIVE HeldBy(_)
HeldBy(ws) ==
    IF ws = {} THEN 0
    ELSE LET w == CHOOSE x \in ws : TRUE IN Held(wk[w]) + HeldBy(ws \ {w})

JobLoad == BagCardinality(jobs) + HeldBy(Workers)

NoTxOpen == \A w \in Workers : wk[w].pc = "idle"

\* The storage lets a Score transaction start: always, or only when no other
\* is open. Under serialization it does not matter which worker holds the one
\* open transaction: it is the first.
MayStart(w) == serialized => (NoTxOpen /\ w = "w1")

(***************************************************************************)
(* Score, lines 123-161: from the reads to the submission's write. fault   *)
(* names the storage call that fails ("" for none).                        *)
(***************************************************************************)
\* The batch has no RunTest job: only the ScoreSubmission job.
ScoreBatchNoRun(sub, missing) == <<NewJobScore(sub.ID)>>

\* The batch has no ScoreSubmission job: only the RunTest jobs.
ScoreBatchNoScore(sub, missing) ==
    [i \in 1 .. Len(missing) |-> NewJobRun(sub.ID, missing[i])]

ScoreBatch(sub, missing) ==
    [i \in 1 .. Len(missing) |-> NewJobRun(sub.ID, missing[i])] \o <<NewJobScore(sub.ID)>>

\* The score is set to 0.0 and written before the missing tests are looked at.
ScoreIncompleteTouches(base, missing, fault) ==
    LET batch == [i \in 1 .. Len(missing) |-> NewJobRun(base.Sub.ID, missing[i])]
                 \o <<NewJobScore(base.Sub.ID)>>
    IN [base EXCEPT !.pc = "ret", !.branch = "incomplete", !.batch = batch,
                    !.Sub = [base.Sub EXCEPT !.Score = [Float64 |-> 0, Valid |-> TRUE]],
                    !.txSub = TRUE,
                    !.txJobs = IF fault = "jobs" THEN <<>> ELSE batch,
                    !.err = IF fault = "jobs" THEN fault ELSE ""]

ScoreIncomplete(base, missing, fault) ==
    LET batch == ScoreBatch(base.Sub, missing)
    IN [base EXCEPT !.pc = "ret", !.branch = "incomplete", !.batch = batch,
                    !.txJobs = IF fault = "jobs" THEN <<>> ELSE batch,
                    !.err = IF fault = "jobs" THEN fault ELSE ""]

\* The score is not reset to 0.0: the groups are added to the stored score.
ScoreScoringAccumulate(base, tests, testResults, fault) ==
    LET s1 == [base.Sub EXCEPT !.Score = [Float64 |-> @.Float64 + SumGroups(tests, testResults),
                                          Valid |-> TRUE]]
        s2 == [s1 EXCEPT !.Penalty =
                  [Int64 |-> ComputePenalties(problem.PenaltyPolicy, subs, s1),
                   Valid |-> TRUE]]
        s3 == [s2 EXCEPT !.Verdict = UpdateVerdict(tests, s2)]
    IN IF fault = "penalty" /\ problem.PenaltyPolicy = "ICPC"
       THEN [base EXCEPT !.pc = "ret", !.branch = "scoring", !.Sub = s1, !.err = fault]
       ELSE IF fault = "subWrite"
       THEN [base EXCEPT !.pc = "ret", !.branch = "scoring", !.Sub = s3, !.err = fault]
       ELSE [base EXCEPT !.pc = "written", !.branch = "scoring", !.Sub = s3,
                         !.txSub = TRUE]

\* The verdict is classified before the penalty is computed.
ScoreScoringVerdictFirst(base, tests, testResults, fault) ==
    LET s1 == [base.Sub EXCEPT !.Score = [Float64 |-> SumGroups(tests, testResults),
                                          Valid |-> TRUE]]
        sv == [s1 EXCEPT !.Verdict = UpdateVerdict(tests, s1)]
        s3 == [sv EXCEPT !.Penalty =
                  [Int64 |-> ComputePenalties(problem.PenaltyPolicy, subs, sv),
                   Valid |-> TRUE]]
    IN IF fault = "penalty" /\ problem.PenaltyPolicy = "ICPC"
       THEN [base EXCEPT !.pc = "ret", !.branch = "scoring", !.Sub = sv, !.err = fault]
       ELSE IF fault = "subWrite"
       THEN [base EXCEPT !.pc = "ret", !.branch = "scoring", !.Sub = s3, !.err = fault]
       ELSE [base EXCEPT !.pc = "written", !.branch = "scoring", !.Sub = s3,
                         !.txSub = TRUE]

ScoreScoring(base, tests, testResults, fault) ==
    LET s1 == [base.Sub EXCEPT !.Score = [Float64 |-> SumGroups(tests, testResults),
                                          Valid |-> TRUE]]
        s2 == [s1 EXCEPT !.Penalty =
                  [Int64 |-> ComputePenalties(problem.PenaltyPolicy, subs, s1),
                   Valid |-> TRUE]]
        s3 == [s2 EXCEPT !.Verdict = UpdateVerdict(tests, s2)]
    IN IF fault = "penalty" /\ problem.PenaltyPolicy = "ICPC"
       THEN [base EXCEPT !.pc = "ret", !.branch = "scoring", !.Sub = s1, !.err = fault]
       ELSE IF fault = "subWrite"
       THEN [base EXCEPT !.pc = "ret", !.branch = "scoring", !.Sub = s3, !.err = fault]
       ELSE [base EXCEPT !.pc = "written", !.branch = "scoring", !.Sub = s3,
                         !.txSub = TRUE]

\* The batch is inserted even when no test is missing: len(missing) >= 0.
ScoreFirstRequeues(sub, fault) ==
    LET base == [IdleWorker EXCEPT !.Sub = sub]
        testResults == TestResults(sub.ID)
        tests == problem.Tests
        missing == MissingTests(tests, testResults)
    IN IF fault \in {"results", "tests"}
       THEN [base EXCEPT !.pc = "ret", !.err = fault]
       ELSE ScoreIncomplete(base, missing, fault)

ScoreFirst(sub, fault) ==
    LET base == [IdleWorker EXCEPT !.Sub = sub]
        testResults == TestResults(sub.ID)
        tests == problem.Tests
        missing == MissingTests(tests, testResults)
    IN IF fault \in {"results", "tests"}
       THEN [base EXCEPT !.pc = "ret", !.err = fault]
       ELSE IF Len(missing) > 0
       THEN ScoreIncomplete(base, missing, fault)
       ELSE ScoreScoring(base, tests, testResults, fault)

(***************************************************************************)
(* Score, lines 164-172: the ProblemResult of the user's submissions.      *)
(***************************************************************************)
\* The standing is computed from the scored submission alone.
ScoreSecondOwnOnly(w, fault) ==
    IF fault = "subsRead"
    THEN [w EXCEPT !.pc = "ret", !.err = fault]
    ELSE LET pr == CompareScores(problem.ScoringMode, <<[w.Sub EXCEPT !.ID = 1]>>)
         IN IF fault = "prWrite"
            THEN [w EXCEPT !.pc = "ret", !.err = fault]
            ELSE [w EXCEPT !.pc = "ret",
                           !.txPr = {[pr EXCEPT !.BestSubmissionID =
                                         IF @.Valid THEN [@ EXCEPT !.Int64 = w.Sub.ID] ELSE @]}]

\* The error of the read of the user's submissions is dropped: Score returns nil.
ScoreSecondSwallow(w, fault) ==
    IF fault = "subsRead"
    THEN [w EXCEPT !.pc = "ret"]
    ELSE LET pr == CompareScores(problem.ScoringMode, TxSubs(w))
         IN IF fault = "prWrite"
            THEN [w EXCEPT !.pc = "ret", !.err = fault]
            ELSE [w EXCEPT !.pc = "ret", !.txPr = {pr}]

\* The user's submissions are read as committed, without the row Score has
\* just written.
ScoreSecondStale(w, fault) ==
    IF fault = "subsRead"
    THEN [w EXCEPT !.pc = "ret", !.err = fault]
    ELSE LET pr == CompareScores(problem.ScoringMode, subs)
         IN IF fault = "prWrite"
            THEN [w EXCEPT !.pc = "ret", !.err = fault]
            ELSE [w EXCEPT !.pc = "ret", !.txPr = {pr}]

ScoreSecond(w, fault) ==
    IF fault = "subsRead"
    THEN [w EXCEPT !.pc = "ret", !.err = fault]
    ELSE LET pr == CompareScores(problem.ScoringMode, TxSubs(w))
         IN IF fault = "prWrite"
            THEN [w EXCEPT !.pc = "ret", !.err = fault]
            ELSE [w EXCEPT !.pc = "ret", !.txPr = {pr}]

FirstFaults == {"", "results", "tests", "jobs", "penalty", "subWrite"}
SecondFaults == {"", "subsRead", "prWrite"}

(***************************************************************************)
(* Actions.                                                                *)
(***************************************************************************)
\* The (ScoringMode, PenaltyPolicy) pairs of the specification that submits,
\* runs and scores: every scoring mode, every penalty policy.
Policies ==
    {<<"Once", "ICPC">>, <<"Last", "SubmitTime">>, <<"Best", "None">>, <<"Decay", "ICPC">>}

Init ==
    /\ \E p \in Policies, tests \in TestConfigs :
          problem = [ScoringMode |-> p[1], PenaltyPolicy |-> p[2], Tests |-> tests]
    /\ serialized = TRUE
    /\ subs = <<>>
    /\ results = {}
    /\ standing = {}
    /\ jobs = EmptyBag
    /\ wk = [w \in Workers |-> IdleWorker]

\* The other transactions (a submission, a rejudge, a test run) commute with
\* the steps of an open Score transaction: they are taken between them.

\* A user submits: a pending submission and its ScoreSubmission job.
Submit(compiled) ==
    /\ NoTxOpen
    /\ Len(subs) < MaxSubs
    /\ JobLoad < MaxJobs
    /\ subs' = Append(subs, [NilSub EXCEPT !.ID = Len(subs) + 1,
                                           !.CompiledSource = compiled,
                                           !.SubmittedAt = SubmitTime(Len(subs) + 1)])
    /\ jobs' = jobs (+) SetToBag({NewJobScore(Len(subs) + 1)})
    /\ UNCHANGED <<problem, serialized, results, standing, wk>>

\* A ScoreSubmission job is queued again for a submission (a rejudge).
Rescore(s) ==
    /\ NoTxOpen
    /\ s \in 1 .. Len(subs)
    /\ ~BagIn(NewJobScore(s), jobs)
    /\ \A w \in Workers : wk[w].Sub.ID # s
    /\ JobLoad < MaxJobs
    /\ jobs' = jobs (+) SetToBag({NewJobScore(s)})
    /\ UNCHANGED <<problem, serialized, subs, results, standing, wk>>

\* A RunTest job is executed: the result of (submission, test) becomes visible.
RunTest(s, t, score) ==
    /\ NoTxOpen
    /\ BagIn(NewJobRun(s, t), jobs)
    /\ jobs' = jobs (-) SetToBag({NewJobRun(s, t)})
    /\ results' = IF \E r \in results : r.SubmissionID = s /\ r.TestID = t
                  THEN results
                  ELSE results \cup {[SubmissionID |-> s, TestID |-> t, Score |-> score]}
    /\ UNCHANGED <<problem, serialized, subs, standing, wk>>

\* A worker takes a ScoreSubmission job, opens a transaction and calls Score,
\* which runs up to the submission's write (or to its return).
ScoreStart(w, s, fault) ==
    /\ wk[w].pc = "idle"
    /\ MayStart(w)
    /\ BagIn(NewJobScore(s), jobs)
    /\ LET next == ScoreFirst(subs[s], fault)
       IN /\ JobLoad - 1 + Held(next) <= MaxJobs
          /\ wk' = [wk EXCEPT ![w] = next]
    /\ jobs' = jobs (-) SetToBag({NewJobScore(s)})
    /\ UNCHANGED <<problem, serialized, subs, results, standing>>

\* Score goes on from the submission's write to its return.
ScoreStanding(w, fault) ==
    /\ wk[w].pc = "written"
    /\ wk' = [wk EXCEPT ![w] = ScoreSecond(wk[w], fault)]
    /\ UNCHANGED <<problem, serialized, subs, results, standing, jobs>>

\* Score has returned nil: the worker commits the transaction, and the job
\* is done.
Commit(w) ==
    /\ wk[w].pc = "ret"
    /\ wk[w].err = ""
    /\ subs' = IF wk[w].txSub THEN SubmissionWrite(subs, wk[w].Sub) ELSE subs
    /\ standing' = IF wk[w].txPr = {} THEN standing
                   ELSE ProblemResultWrite(standing, CHOOSE pr \in wk[w].txPr : TRUE)
    /\ jobs' = jobs (+) SeqToBag(wk[w].txJobs)
    /\ wk' = [wk EXCEPT ![w] = IdleWorker]
    /\ UNCHANGED <<problem, serialized, results>>

\* Score has returned an error: the worker rolls the transaction back, and
\* the job stays in the queue.
Rollback(w) ==
    /\ wk[w].pc = "ret"
    /\ wk[w].err # ""
    /\ jobs' = jobs (+) SetToBag({NewJobScore(wk[w].Sub.ID)})
    /\ wk' = [wk EXCEPT ![w] = IdleWorker]
    /\ UNCHANGED <<problem, serialized, subs, results, standing>>

Next ==
    \/ \E compiled \in BOOLEAN : Submit(compiled)
    \/ \E s \in 1 .. MaxSubs : Rescore(s)
    \/ \E s \in 1 .. MaxSubs, t \in TestIDs(problem.Tests), score \in PassFail : RunTest(s, t, score)
    \/ \E w \in Workers, s \in 1 .. MaxSubs, fault \in FirstFaults :
          s <= Len(subs) /\ ScoreStart(w, s, fault)
    \/ \E w \in Workers, fault \in SecondFaults : ScoreStanding(w, fault)
    \/ \E w \in Workers : Commit(w)
    \/ \E w \in Workers : Rollback(w)

Spec == Init /\ [][Next]_vars

(***************************************************************************)
(* Two workers score the submissions of the user at the same time, on a    *)
(* storage that serializes the transactions or does not. The submissions   *)
(* are there, their test results are complete and their ScoreSubmission    *)
(* jobs are queued; no storage call fails.                                 *)
(***************************************************************************)
PendingSub(id, compiled) ==
    [NilSub EXCEPT !.ID = id, !.CompiledSource = compiled, !.SubmittedAt = SubmitTime(id)]

InitRace ==
    /\ \E mode \in ScoringModes :
          problem = [ScoringMode |-> mode, PenaltyPolicy |-> "ICPC", Tests |-> TestsOne]
    /\ serialized \in BOOLEAN
    /\ \E n \in 1 .. MaxSubs :
          /\ \E compiled \in [1 .. n -> BOOLEAN] :
                subs = [i \in 1 .. n |-> PendingSub(i, compiled[i])]
          /\ \E score \in [1 .. n -> PassFail] :
                results = {[SubmissionID |-> i, TestID |-> 1, Score |-> score[i]] : i \in 1 .. n}
          /\ jobs = SetToBag({NewJobScore(i) : i \in 1 .. n})
    /\ standing = {}
    /\ wk = [w \in Workers |-> IdleWorker]

NextRace ==
    \/ \E s \in 1 .. MaxSubs : Rescore(s)
    \/ \E w \in Workers, s \in 1 .. MaxSubs : s <= Len(subs) /\ ScoreStart(w, s, "")
    \/ \E w \in Workers : ScoreStanding(w, "")
    \/ \E w \in Workers : Commit(w)

SpecRace == InitRace /\ [][NextRace]_vars

(***************************************************************************)
(* The job system at work on submissions that are there, pending, with     *)
(* their ScoreSubmission jobs queued and no test run yet; no storage call  *)
(* fails. Every job that is time and again executable is executed, and a   *)
(* call of Score that has started goes on to its return and to the end of  *)
(* its transaction.                                                        *)
(***************************************************************************)
InitLive ==
    /\ problem = [ScoringMode |-> "Best", PenaltyPolicy |-> "ICPC", Tests |-> TestsOne]
    /\ serialized = TRUE
    /\ \E n \in 1 .. MaxSubs :
          /\ subs = [i \in 1 .. n |-> PendingSub(i, TRUE)]
          /\ jobs = SetToBag({NewJobScore(i) : i \in 1 .. n})
    /\ results = {}
    /\ standing = {}
    /\ wk = [w \in Workers |-> IdleWorker]

NextLive ==
    \/ \E s \in 1 .. MaxSubs, t \in TestIDs(problem.Tests), score \in PassFail : RunTest(s, t, score)
    \/ \E w \in Workers, s \in 1 .. MaxSubs : s <= Len(subs) /\ ScoreStart(w, s, "")
    \/ \E w \in Workers : ScoreStanding(w, "")
    \/ \E w \in Workers : Commit(w)

Fairness ==
    /\ \A s \in 1 .. MaxSubs, t \in TestIDs(TestsOne) :
          SF_vars(\E score \in PassFail : RunTest(s, t, score))
    /\ \A s \in 1 .. MaxSubs :
          SF_vars(\E w \in Workers : s <= Len(subs) /\ ScoreStart(w, s, ""))
    /\ WF_vars(\E w \in Workers : ScoreStanding(w, ""))
    /\ WF_vars(\E w \in Workers : Commit(w))

SpecLive == InitLive /\ [][NextLive]_vars /\ Fairness

(***************************************************************************)
(* One submission, pending, with any of its test results there, under any  *)
(* problem: what the calls of Score do with it.                            *)
(***************************************************************************)
InitScore ==
    /\ problem \in [ScoringMode : ScoringModes, PenaltyPolicy : PenaltyPolicies,
                    Tests : ScoreConfigs]
    /\ serialized = TRUE
    /\ \E compiled \in BOOLEAN : subs = <<PendingSub(1, compiled)>>
    /\ \E have \in SUBSET TestIDs(problem.Tests) :
          \E score \in [have -> ResultScores] :
             results = {[SubmissionID |-> 1, TestID |-> t, Score |-> score[t]] : t \in have}
    /\ standing = {}
    /\ jobs = SetToBag({NewJobScore(1)})
    /\ wk = [w \in Workers |-> IdleWorker]

NextScore ==
    \/ \E w \in Workers, fault \in FirstFaults : ScoreStart(w, 1, fault)
    \/ \E w \in Workers, fault \in SecondFaults : ScoreStanding(w, fault)
    \/ \E w \in Workers : Commit(w)
    \/ \E w \in Workers : Rollback(w)

SpecScore == InitScore /\ [][NextScore]_vars

(***************************************************************************)
(* CompareScores and ComputePenalties as functions: applied to any list of *)
(* stored submissions.                                                     *)
(***************************************************************************)
MaxLen == 3

\* The kinds of stored submission: not scored yet; scored without compiled
\* source; scored, with a score of 40, 55 or 70; scored 70 and accepted.
StoredKinds == {"pending", "uncompiled", "s40", "s55", "s70", "a70"}

\* The i-th submission is made about 1, 60, 125, 126, ... minutes after the start.
StoredTime(i, off) ==
    Contest.StartTime + off
    + (CASE i = 1 -> 1 [] i = 2 -> 60 * Minute [] OTHER -> (122 + i) * Minute)

StoredSub(i, kind, off) ==
    LET scored(v, verdict) ==
            [ID |-> i, CompiledSource |-> (kind # "uncompiled"),
             SubmittedAt |-> StoredTime(i, off),
             Score |-> [Float64 |-> v * ScoreDen, Valid |-> TRUE],
             Penalty |-> [Int64 |-> 5 * i, Valid |-> TRUE], Verdict |-> verdict]
    IN CASE kind = "pending" -> [PendingSub(i, TRUE) EXCEPT !.SubmittedAt = StoredTime(i, off)]
         [] kind = "uncompiled" -> scored(0, VerdictCompileError)
         [] kind = "s40" -> scored(40, VerdictScored)
         [] kind = "s55" -> scored(55, VerdictScored)
         [] kind = "s70" -> scored(70, VerdictScored)
         [] kind = "a70" -> scored(70, VerdictAccepted)

InitFn ==
    /\ problem \in [ScoringMode : ScoringModes, PenaltyPolicy : PenaltyPolicies,
                    Tests : {TestsNone}]
    /\ serialized = TRUE
    /\ \E n \in 1 .. MaxLen, off \in {0, 1, Minute - 1} :
          \E kind \in [1 .. n -> StoredKinds] :
             subs = [i \in 1 .. n |-> StoredSub(i, kind[i], off)]
    /\ results = {}
    /\ standing = {}
    /\ jobs = EmptyBag
    /\ wk = [w \in Workers |-> IdleWorker]

\* pr := s.CompareScores(subs)
ApplyCompareScores ==
    /\ NoTxOpen
    /\ standing = {}
    /\ standing' = {CompareScores(problem.ScoringMode, subs)}
    /\ UNCHANGED <<problem, serialized, subs, results, jobs, wk>>

\* s.ComputePenalties(sub), for the i-th submission of the list
ApplyComputePenalties(i) ==
    /\ NoTxOpen
    /\ i \in 1 .. Len(subs)
    /\ wk' = [wk EXCEPT !["w1"] =
                [IdleWorker EXCEPT
                    !.pc = "fn",
                    !.Sub = [subs[i] EXCEPT !.Penalty =
                                [Int64 |-> ComputePenalties(problem.PenaltyPolicy, subs, subs[i]),
                                 Valid |-> TRUE]]]]
    /\ UNCHANGED <<problem, serialized, subs, results, standing, jobs>>

NextFn ==
    \/ ApplyCompareScores
    \/ \E i \in 1 .. MaxLen : ApplyComputePenalties(i)

SpecFn == InitFn /\ [][NextFn]_vars

(***************************************************************************)
(* Properties.                                                             *)
(***************************************************************************)
\* A counting submission: compiled source, a valid score, a valid penalty.
Counting(sub) == sub.CompiledSource /\ sub.Score.Valid /\ sub.Penalty.Valid

SomeScored == \E i \in 1 .. Len(subs) : subs[i].Score.Valid

\* The tests of the problem that have a committed result for submission id.
Have(id) == {r.TestID : r \in {x \in results : x.SubmissionID = id}}

Missing(id) == TestIDs(problem.Tests) \ Have(id)

Occurrences(seq, x) == Cardinality({i \in 1 .. Len(seq) : seq[i] = x})

\* C1: when the Score transactions run one at a time, the committed standing
\* is, once a submission has been scored, the one row CompareScores gives
\* for the committed submissions of the user (and no row before that).
C1_StandingIsPolicy ==
    IF SomeScored
    THEN standing = {CompareScores(problem.ScoringMode, subs)}
    ELSE standing = {}

\* Two counting submissions have been scored, the first one higher, and the
\* standing names the submission the policy selects.
C1_Witness ==
    /\ NoTxOpen
    /\ Len(subs) = 2
    /\ Counting(subs[1]) /\ Counting(subs[2])
    /\ subs[1].Score.Float64 > subs[2].Score.Float64
    /\ problem.ScoringMode = "Best"
    /\ \E pr \in standing : pr.BestSubmissionID = [Int64 |-> 1, Valid |-> TRUE]

\* C2: Score on a submission that misses a test result returns with the
\* in-memory submission as it was read and with nothing but jobs written, and
\* the end of its transaction changes neither the submissions nor the
\* standing nor the results: only the job queue, by the batch (or, on an
\* error, by the job that stays).
C2_IncompleteFrame ==
    [][\A w \in Workers :
          /\ (wk[w].pc = "idle" /\ wk'[w].pc # "idle" /\ wk'[w].err \notin {"results", "tests"}
              /\ Missing(wk'[w].Sub.ID) # {})
             => /\ wk'[w].pc = "ret"
                /\ wk'[w].Sub = subs[wk'[w].Sub.ID]
                /\ ~wk'[w].txSub
                /\ wk'[w].txPr = {}
                /\ subs' = subs /\ standing' = standing /\ results' = results
          /\ (wk[w].pc = "ret" /\ wk'[w].pc = "idle" /\ Missing(wk[w].Sub.ID) # {})
             => /\ subs' = subs /\ standing' = standing /\ results' = results
                /\ jobs' = jobs (+) (IF wk[w].err = "" THEN SeqToBag(wk[w].batch)
                                     ELSE SetToBag({NewJobScore(wk[w].Sub.ID)}))
      ]_vars

\* Score has returned from a second submission's missing tests while the
\* first is scored and the standing is there.
C2_Witness ==
    \E w \in Workers :
       /\ wk[w].pc = "ret" /\ wk[w].err = ""
       /\ wk[w].Sub.ID = 2 /\ Missing(2) # {}
       /\ subs[1].Score.Valid
       /\ standing # {}

\* C3: Score on a submission that misses k >= 1 test results makes one batch
\* of k + 1 jobs: one RunTest for each test without a result, none for a test
\* with a result, and one ScoreSubmission; the batch is what it inserts.
C3_Batch ==
    \A w \in Workers :
       (wk[w].pc = "ret" /\ wk[w].err \notin {"results", "tests"}
        /\ Missing(wk[w].Sub.ID) # {})
       => LET id == wk[w].Sub.ID
              batch == wk[w].batch
          IN /\ Len(batch) = Cardinality(Missing(id)) + 1
             /\ \A t \in Missing(id) : Occurrences(batch, NewJobRun(id, t)) = 1
             /\ \A t \in Have(id) : Occurrences(batch, NewJobRun(id, t)) = 0
             /\ Occurrences(batch, NewJobScore(id)) = 1
             /\ \A i \in 1 .. Len(batch) : batch[i].SubmissionID = id
             /\ wk[w].txJobs = (IF wk[w].err = "" THEN batch ELSE <<>>)

\* One of two tests has a result: the batch is the other test's RunTest and
\* the ScoreSubmission.
C3_Witness ==
    \E w \in Workers :
       /\ wk[w].pc = "ret" /\ wk[w].err = ""
       /\ Have(wk[w].Sub.ID) = {1} /\ Missing(wk[w].Sub.ID) = {2}
       /\ wk[w].txJobs = <<NewJobRun(wk[w].Sub.ID, 2), NewJobScore(wk[w].Sub.ID)>>

\* Every submission has been scored, no transaction is open, no job is left,
\* and the standing is not what CompareScores gives for the submissions.
StaleStanding ==
    /\ NoTxOpen
    /\ jobs = EmptyBag
    /\ \A i \in 1 .. Len(subs) : subs[i].Score.Valid
    /\ standing # {CompareScores(problem.ScoringMode, subs)}

\* C4: a standing that is not the policy's choice among the scored
\* submissions is reached only when the Score transactions of two
\* submissions are not serialized; with serialized transactions it never is.
C4_StaleOnlyUnserialized ==
    StaleStanding => (~serialized /\ Len(subs) >= 2)

\* Both transactions have committed; the standing is the lower-scored
\* submission's, the better one's effect is gone.
C4_Witness ==
    /\ ~serialized
    /\ StaleStanding
    /\ problem.ScoringMode = "Best"
    /\ Len(subs) = 2
    /\ Counting(subs[1]) /\ Counting(subs[2])
    /\ subs[1].Score.Float64 > subs[2].Score.Float64
    /\ \E pr \in standing :
          /\ pr.BestSubmissionID = [Int64 |-> 2, Valid |-> TRUE]
          /\ pr.Score = subs[2].Score.Float64

\* C5: Score returns nil only when everything is written (the submission and
\* the standing, or the batch of jobs); a transaction whose Score returned an
\* error leaves the submissions, the results and the standing as they were
\* and its job in the queue; and a committed change of a submission's row
\* comes with the standing computed from it.
C5_Atomic ==
    [][\A w \in Workers :
          /\ (wk'[w].pc = "ret" /\ wk'[w].err = "")
             => \/ wk'[w].branch = "scoring" /\ wk'[w].txSub /\ wk'[w].txPr # {}
                \/ wk'[w].branch = "incomplete" /\ wk'[w].txJobs = wk'[w].batch
          /\ (wk[w].pc = "ret" /\ wk[w].err # "" /\ wk'[w].pc = "idle")
             => /\ subs' = subs /\ standing' = standing /\ results' = results
                /\ jobs' = jobs (+) SetToBag({NewJobScore(wk[w].Sub.ID)})
          /\ (wk[w].pc = "ret" /\ wk'[w].pc = "idle" /\ subs' # subs)
             => /\ subs' = SubmissionWrite(subs, wk[w].Sub)
                /\ standing' = {CompareScores(problem.ScoringMode, subs')}
      ]_vars

\* The submission is written in the transaction, a later storage call has
\* failed, and the committed submission is still not scored.
C5_Witness ==
    \E w \in Workers :
       /\ wk[w].pc = "ret"
       /\ wk[w].err \in {"subsRead", "prWrite"}
       /\ wk[w].txSub /\ wk[w].Sub.Score.Valid
       /\ ~subs[wk[w].Sub.ID].Score.Valid

\* C6: the commit of a Score call on a submission that is scored already
\* changes no submission, leaves the standing as it was and inserts no job.
C6_Idempotent ==
    [][\A w \in Workers :
          (wk[w].pc = "ret" /\ wk[w].err = "" /\ wk[w].branch = "scoring"
           /\ subs[wk[w].Sub.ID].Score.Valid /\ wk'[w].pc = "idle")
          => /\ wk[w].Sub = subs[wk[w].Sub.ID]
             /\ wk[w].txPr = standing
             /\ wk[w].txJobs = <<>>
             /\ subs' = subs /\ standing' = standing /\ jobs' = jobs
      ]_vars

\* Score has run again on the first of two scored submissions.
C6_Witness ==
    \E w \in Workers :
       /\ wk[w].pc = "ret" /\ wk[w].err = "" /\ wk[w].branch = "scoring"
       /\ wk[w].Sub.ID = 1
       /\ Len(subs) = 2
       /\ Counting(subs[1]) /\ Counting(subs[2])
       /\ problem.PenaltyPolicy = "ICPC"

\* The whole minutes of d seconds, a started minute counted whole.
CeilMinutes(d) ==
    CHOOSE m \in 0 .. (d \div Minute) + 1 : m * Minute >= d /\ (m - 1) * Minute < d

\* ComputePenalties has been applied to a submission under the ICPC policy.
ICPCApplied(w) == wk[w].pc = "fn" /\ problem.PenaltyPolicy = "ICPC"

\* C7, as claimed: under the ICPC policy the penalty is 20 * i plus the
\* minutes since the contest's start, rounded up, for the submission at
\* position i (from 1) of the user's list.
C7_ICPCFromOne ==
    \A w \in Workers :
       ICPCApplied(w)
       => wk[w].Sub.Penalty.Int64
          = 20 * wk[w].Sub.ID + CeilMinutes(wk[w].Sub.SubmittedAt - Contest.StartTime)

\* C7, amended: the penalty is 20 * (i - 1) plus the minutes since the
\* contest's start, rounded up: 20 for each submission before it in the list.
C7_ICPCFromZero ==
    \A w \in Workers :
       ICPCApplied(w)
       => /\ wk[w].Sub.Penalty.Valid
          /\ wk[w].Sub.Penalty.Int64
             = 20 * (wk[w].Sub.ID - 1)
               + CeilMinutes(wk[w].Sub.SubmittedAt - Contest.StartTime)

\* The user's 3rd submission, made 125 minutes after the start: 20*2 + 125.
C7_Witness ==
    \E w \in Workers :
       /\ ICPCApplied(w)
       /\ wk[w].Sub.ID = 3
       /\ wk[w].Sub.SubmittedAt = Contest.StartTime + 125 * Minute
       /\ wk[w].Sub.Penalty.Int64 = 165

\* The sum of the weights of the groups of weight > 0, over a set of indices.
RECURSIVE WeightOver(_, _)
WeightOver(tests, I) ==
    IF I = {} THEN 0
    ELSE LET i == CHOOSE x \in I : TRUE
         IN tests[i].Score + WeightOver(tests, I \ {i})

PositiveWeight(tests) == WeightOver(tests, {i \in 1 .. Len(tests) : tests[i].Score > 0})

VerdictRule(sub) ==
    IF ~Counting(sub) THEN sub.Verdict = VerdictCompileError
    ELSE IF sub.Score.Float64 = PositiveWeight(problem.Tests) * ScoreDen
    THEN sub.Verdict = VerdictAccepted
    ELSE sub.Verdict = VerdictScored

\* C8: the submission Score has scored, as written and as committed, is
\* Compile Error if and only if it does not count, else Accepted if and only
\* if its score is the sum of the weights of the groups of weight > 0, else
\* Scored.
C8_Verdict ==
    /\ \A w \in Workers : wk[w].txSub => VerdictRule(wk[w].Sub)
    /\ \A i \in 1 .. Len(subs) : subs[i].Score.Valid => VerdictRule(subs[i])

\* A committed submission is accepted under the problem with a hidden group.
C8_Witness ==
    /\ problem.Tests = TestsHidden
    /\ \E i \in 1 .. Len(subs) :
          /\ subs[i].Score.Valid /\ subs[i].Verdict = VerdictAccepted
          /\ subs[i].Score.Float64 = 3 * ScoreDen

\* The explicit empty standing CompareScores returns.
EmptyStanding ==
    [BestSubmissionID |-> NullInt64, Penalty |-> 0, Score |-> 0, Solved |-> FALSE,
     ProblemID |-> ProblemID, UserID |-> UserID]

\* C9, as claimed: when no submission of the user counts, CompareScores
\* returns the empty standing and, Score done, the (user, problem) has no
\* standing row.
C9_NoRowWhenNoneCounts ==
    (NoTxOpen /\ \A i \in 1 .. Len(subs) : ~Counting(subs[i]))
    => /\ CompareScores(problem.ScoringMode, subs) = EmptyStanding
       /\ standing = {}

\* The counting submissions of a list, by index.
CountingIn(list) == {i \in 1 .. Len(list) : Counting(list[i])}

\* C10: under Best, CompareScores of a list with a counting submission gives
\* the highest stored score of the counting submissions, with the id of the
\* last submission of the list that has it; the submissions that do not count
\* change nothing.
C10_Best ==
    (problem.ScoringMode = "Best" /\ CountingIn(subs) # {})
    => \A pr \in standing :
          LET C == CountingIn(subs)
              top == CHOOSE i \in C : \A j \in C : subs[j].Score.Float64 <= subs[i].Score.Float64
              last == CHOOSE i \in C :
                         /\ subs[i].Score.Float64 = subs[top].Score.Float64
                         /\ \A j \in C : subs[j].Score.Float64 = subs[top].Score.Float64 => j <= i
          IN /\ pr.Score = subs[top].Score.Float64
             /\ pr.BestSubmissionID = [Int64 |-> subs[last].ID, Valid |-> TRUE]
             /\ pr = CompareScores("Best", SelectSeq(subs, Counting))

\* Scores 40, 70, 55: the standing is 70, of the second submission.
C10_Witness ==
    /\ problem.ScoringMode = "Best"
    /\ Len(subs) = 3
    /\ \A i \in 1 .. 3 : Counting(subs[i])
    /\ subs[1].Score.Float64 = 40 * ScoreDen
    /\ subs[2].Score.Float64 = 70 * ScoreDen
    /\ subs[3].Score.Float64 = 55 * ScoreDen
    /\ \E pr \in standing :
          pr.Score = 70 * ScoreDen /\ pr.BestSubmissionID = [Int64 |-> 2, Valid |-> TRUE]

\* C11: under Once, CompareScores of a list with a counting submission gives
\* the id, the stored score and the penalty of the first counting submission
\* of the list, whatever the scores of the later ones; the submissions before
\* it that do not count are skipped.
C11_Once ==
    (problem.ScoringMode = "Once" /\ CountingIn(subs) # {})
    => \A pr \in standing :
          LET C == CountingIn(subs)
              first == CHOOSE i \in C : \A j \in C : i <= j
          IN /\ pr.BestSubmissionID = [Int64 |-> subs[first].ID, Valid |-> TRUE]
             /\ pr.Score = subs[first].Score.Float64
             /\ pr.Penalty = subs[first].Penalty.Int64
             /\ pr.Solved = (subs[first].Verdict = VerdictAccepted)

\* A submission that does not count, then scores 40 and 70: the standing is
\* 40, of the second submission.
C11_Witness ==
    /\ problem.ScoringMode = "Once"
    /\ Len(subs) = 3
    /\ ~Counting(subs[1]) /\ Counting(subs[2]) /\ Counting(subs[3])
    /\ subs[2].Score.Float64 = 40 * ScoreDen
    /\ subs[3].Score.Float64 = 70 * ScoreDen
    /\ \E pr \in standing :
          /\ pr.Score = 40 * ScoreDen
          /\ pr.BestSubmissionID = [Int64 |-> 2, Valid |-> TRUE]
          /\ pr.Penalty = subs[2].Penalty.Int64

\* The Decay score of the i-th submission of a list: counted is the number of
\* counting submissions before it.
DecayOf(list, i) ==
    DecayScore(list[i], Cardinality({j \in CountingIn(list) : j < i}))

\* C12, as claimed: under Decay, CompareScores of a list with a counting
\* submission selects the counting submission with the highest recomputed
\* score (the later one of a tie), and the standing's score is that highest
\* recomputed score.
C12_DecayBest ==
    (problem.ScoringMode = "Decay" /\ CountingIn(subs) # {})
    => \A pr \in standing :
          LET C == CountingIn(subs)
              top == CHOOSE i \in C : \A j \in C : DecayOf(subs, j) <= DecayOf(subs, i)
              last == CHOOSE i \in C :
                         /\ DecayOf(subs, i) = DecayOf(subs, top)
                         /\ \A j \in C : DecayOf(subs, j) = DecayOf(subs, top) => j <= i
          IN /\ pr.Score = DecayOf(subs, top)
             /\ pr.BestSubmissionID = [Int64 |-> subs[last].ID, Valid |-> TRUE]

\* Score has gone through the scoring of w's submission without an error.
Scored(w) == wk[w].branch = "scoring" /\ wk[w].err = ""

\* C13, as claimed: for a submission without compiled source Score sets
\* neither the score nor the penalty, the verdict is Compile Error and the
\* standing never names the submission.
C13_SkippedWhenUncompiled ==
    \A w \in Workers :
       (Scored(w) /\ ~wk[w].Sub.CompiledSource)
       => /\ ~wk[w].Sub.Score.Valid
          /\ ~wk[w].Sub.Penalty.Valid
          /\ wk[w].Sub.Verdict = VerdictCompileError
          /\ \A pr \in wk[w].txPr \cup standing :
                pr.BestSubmissionID # [Int64 |-> wk[w].Sub.ID, Valid |-> TRUE]

\* C13, amended: for a submission without compiled source Score sets the
\* score (the sum of the groups) and the penalty like for any other, both
\* valid; the verdict is Compile Error, and the standing, as written and as
\* committed, never names a submission without compiled source.
C13_UncompiledScored ==
    /\ \A w \in Workers :
          (Scored(w) /\ ~wk[w].Sub.CompiledSource)
          => /\ wk[w].Sub.Score =
                   [Float64 |-> SumGroups(problem.Tests, TestResults(wk[w].Sub.ID)),
                    Valid |-> TRUE]
             /\ wk[w].Sub.Penalty =
                   [Int64 |-> ComputePenalties(problem.PenaltyPolicy, subs, wk[w].Sub),
                    Valid |-> TRUE]
             /\ wk[w].Sub.Verdict = VerdictCompileError
             /\ \A pr \in wk[w].txPr :
                   pr.BestSubmissionID # [Int64 |-> wk[w].Sub.ID, Valid |-> TRUE]
    /\ \A pr \in standing :
          pr.BestSubmissionID.Valid => subs[pr.BestSubmissionID.Int64].CompiledSource

\* A submission without compiled source is committed with a valid score
\* above 0 and a valid penalty, Compile Error, and the standing is empty.
C13_Witness ==
    /\ NoTxOpen
    /\ ~subs[1].CompiledSource
    /\ subs[1].Score.Valid /\ subs[1].Score.Float64 > 0
    /\ subs[1].Penalty.Valid
    /\ subs[1].Verdict = VerdictCompileError
    /\ standing = {EmptyStanding}

\* The sum of the ScoreGroup scores of the groups of a set of indices.
RECURSIVE ContribOver(_, _, _)
ContribOver(tests, res, I) ==
    IF I = {} THEN 0
    ELSE LET i == CHOOSE x \in I : TRUE
         IN ScoreGroup(tests[i], res)[1] + ContribOver(tests, res, I \ {i})

\* C14: the score Score sets on the submission is valid and is the sum of the
\* ScoreGroup scores of the groups of weight >= 0; a group of weight < 0
\* gives (0, false), and the score is the same as without those groups.
C14_ScoreIsGroupSum ==
    \A w \in Workers :
       wk[w].branch = "scoring"
       => LET tests == problem.Tests
              res == TestResults(wk[w].Sub.ID)
              I == {i \in 1 .. Len(tests) : tests[i].Score >= 0}
          IN /\ wk[w].Sub.Score = [Float64 |-> ContribOver(tests, res, I), Valid |-> TRUE]
             /\ \A i \in (1 .. Len(tests)) \ I : ScoreGroup(tests[i], res) = <<0, FALSE>>
             /\ wk[w].Sub.Score.Float64
                = SumGroups(SelectSeq(tests, LAMBDA g : g.Score >= 0), res)

\* The test of the hidden group has passed, and the score is the weight of
\* the other group.
C14_Witness ==
    \E w \in Workers :
       /\ wk[w].branch = "scoring" /\ wk[w].pc = "ret" /\ wk[w].err = ""
       /\ problem.Tests = TestsHidden
       /\ TestResults(wk[w].Sub.ID)[2] = ResultDen
       /\ TestResults(wk[w].Sub.ID)[1] = ResultDen
       /\ wk[w].Sub.Score = [Float64 |-> 3 * ScoreDen, Valid |-> TRUE]

\* ComputePenalties has been applied to a submission.
PenaltyApplied(w) == wk[w].pc = "fn"

\* C18: under the SubmitTime policy the penalty is the minutes from the
\* contest's start to the submission, a started minute counted whole and a
\* whole number of minutes left as it is; under None it is 0; it is valid.
C18_SubmitTimeCeiling ==
    \A w \in Workers :
       PenaltyApplied(w)
       => /\ wk[w].Sub.Penalty.Valid
          /\ problem.PenaltyPolicy = "SubmitTime"
             => wk[w].Sub.Penalty.Int64
                = CeilMinutes(wk[w].Sub.SubmittedAt - Contest.StartTime)
          /\ problem.PenaltyPolicy = "None" => wk[w].Sub.Penalty.Int64 = 0

\* One second after the 60th minute: 61.
C18_Witness ==
    \E w \in Workers :
       /\ PenaltyApplied(w)
       /\ problem.PenaltyPolicy = "SubmitTime"
       /\ wk[w].Sub.SubmittedAt = Contest.StartTime + 60 * Minute + 1
       /\ wk[w].Sub.Penalty = [Int64 |-> 61, Valid |-> TRUE]

\* C19: a Min group of weight >= 0 gives the whole weight, whatever the
\* results of its tests in [0,1]; the score Score sets is never below the
\* weights of the Min groups.
C19_MinIsFullWeight ==
    \A w \in Workers :
       wk[w].branch = "scoring"
       => LET tests == problem.Tests
              res == TestResults(wk[w].Sub.ID)
              M == {i \in 1 .. Len(tests) : tests[i].ScoringMode = "Min" /\ tests[i].Score >= 0}
          IN /\ \A i \in M : ScoreGroup(tests[i], res) = <<tests[i].Score * ScoreDen, TRUE>>
             /\ wk[w].Sub.Score.Float64 >= WeightOver(tests, M) * ScoreDen

\* The test of the Min group has failed, the other has passed: the score is
\* the sum of the weights and the submission is accepted.
C19_Witness ==
    \E w \in Workers :
       /\ wk[w].branch = "scoring" /\ wk[w].pc = "ret" /\ wk[w].err = ""
       /\ problem.Tests = TestsMinProduct
       /\ wk[w].Sub.CompiledSource
       /\ TestResults(wk[w].Sub.ID)[1] = 0
       /\ TestResults(wk[w].Sub.ID)[2] = ResultDen
       /\ wk[w].Sub.Score.Float64 = 3 * ScoreDen
       /\ wk[w].Sub.Verdict = VerdictAccepted

\* C16: Score on a submission that misses no test result finds MissingTests
\* empty, goes to the scoring and inserts no job: its transaction ends with
\* the job queue as it was (on an error, with the job that stays), also when
\* the submission was scored before.
C16_NoJobWhenComplete ==
    [][\A w \in Workers :
          /\ (wk[w].pc = "idle" /\ wk'[w].pc # "idle" /\ wk'[w].err \notin {"results", "tests"}
              /\ Missing(wk'[w].Sub.ID) = {})
             => /\ MissingTests(problem.Tests, TestResults(wk'[w].Sub.ID)) = <<>>
                /\ wk'[w].branch = "scoring"
                /\ wk'[w].Sub.Score.Valid
                /\ wk'[w].batch = <<>> /\ wk'[w].txJobs = <<>>
          /\ (wk[w].pc = "written" /\ Missing(wk[w].Sub.ID) = {})
             => wk'[w].txJobs = <<>>
          /\ (wk[w].pc = "ret" /\ wk'[w].pc = "idle" /\ Missing(wk[w].Sub.ID) = {})
             => jobs' = (IF wk[w].err = "" THEN jobs
                         ELSE jobs (+) SetToBag({NewJobScore(wk[w].Sub.ID)}))
      ]_vars

\* A second ScoreSubmission job of a scored submission has been executed: no
\* job is written, and none is left.
C16_Witness ==
    \E w \in Workers :
       /\ wk[w].pc = "ret" /\ wk[w].err = "" /\ wk[w].branch = "scoring"
       /\ problem.Tests = TestsOne
       /\ Missing(wk[w].Sub.ID) = {}
       /\ subs[wk[w].Sub.ID].Score.Valid
       /\ wk[w].txJobs = <<>>
       /\ jobs = EmptyBag

\* C17: where Score stands tells what it has done: at the failure of the
\* penalty the score is set, the penalty and the verdict are not; at the
\* failure of the write or after the write the verdict is the one of the
\* submission with its score and penalty set (never Compile Error for a
\* compiled submission); until the write nothing is written, and the standing
\* is written last, computed from the list with the written submission in it.
C17_Order ==
    \A w \in Workers :
       wk[w].branch = "scoring"
       => LET sub == wk[w].Sub
              old == subs[sub.ID]
              classified == /\ sub.Score.Valid /\ sub.Penalty.Valid
                            /\ sub.Verdict = UpdateVerdict(problem.Tests, sub)
                            /\ sub.CompiledSource
                               => sub.Verdict \in {VerdictAccepted, VerdictScored}
          IN /\ wk[w].err = "penalty"
                => /\ sub.Score.Valid
                   /\ sub.Penalty = old.Penalty /\ sub.Verdict = old.Verdict
                   /\ ~wk[w].txSub /\ wk[w].txPr = {}
             /\ wk[w].err = "subWrite"
                => classified /\ ~wk[w].txSub /\ wk[w].txPr = {}
             /\ (wk[w].pc = "written" \/ wk[w].err \in {"subsRead", "prWrite"})
                => classified /\ wk[w].txSub /\ wk[w].txPr = {}
             /\ (wk[w].pc = "ret" /\ wk[w].err = "")
                => /\ classified /\ wk[w].txSub
                   /\ wk[w].txPr
                      = {CompareScores(problem.ScoringMode, SubmissionWrite(subs, sub))}

\* The first scoring of a compiled submission has returned: accepted, and
\* the standing to be committed names it, solved.
C17_Witness ==
    \E w \in Workers :
       /\ wk[w].pc = "ret" /\ wk[w].err = "" /\ wk[w].branch = "scoring"
       /\ ~subs[wk[w].Sub.ID].Score.Valid
       /\ wk[w].Sub.Verdict = VerdictAccepted
       /\ problem.PenaltyPolicy = "ICPC"
       /\ \E pr \in wk[w].txPr :
             /\ pr.BestSubmissionID = [Int64 |-> wk[w].Sub.ID, Valid |-> TRUE]
             /\ pr.Solved

\* A call of Score on submission s has returned from the missing tests.
IncompleteReturned(s) ==
    \E w \in Workers :
       /\ wk[w].pc = "ret" /\ wk[w].err = "" /\ wk[w].branch = "incomplete"
       /\ wk[w].Sub.ID = s

\* Submission s is scored and the standing is the one of the scored list.
ScoredThrough(s) ==
    /\ s <= Len(subs)
    /\ subs[s].Score.Valid
    /\ Missing(s) = {}
    /\ standing = {CompareScores(problem.ScoringMode, subs)}

\* C15: when the job system executes every job it is given and no storage
\* call fails, a submission on which Score has returned from missing tests is
\* in the end scored, with every result there and the standing updated, in
\* whatever order the RunTest and ScoreSubmission jobs are executed.
C15_EventuallyScored ==
    \A s \in 1 .. MaxSubs : IncompleteReturned(s) ~> ScoredThrough(s)

\* Both submissions are scored, each after its test was run by the job of a
\* call of Score that found it missing.
C15_Witness ==
    /\ NoTxOpen
    /\ problem.Tests = TestsOne
    /\ Len(subs) = 2
    /\ ScoredThrough(1) /\ ScoredThrough(2)
    /\ Have(1) = {1} /\ Have(2) = {1}
    /\ jobs = EmptyBag

\* C20: a submission that is not scored has a ScoreSubmission job in the
\* queue or a call of Score on it running; and a call of Score that has
\* returned nil from the missing tests has written a ScoreSubmission job of
\* the submission.
C20_ScoreJobKept ==
    /\ \A s \in 1 .. Len(subs) :
          ~subs[s].Score.Valid
          => \/ BagIn(NewJobScore(s), jobs)
             \/ \E w \in Workers : wk[w].pc # "idle" /\ wk[w].Sub.ID = s
    /\ \A w \in Workers :
          (wk[w].pc = "ret" /\ wk[w].err = "" /\ wk[w].branch = "incomplete")
          => Occurrences(wk[w].txJobs, NewJobScore(wk[w].Sub.ID)) >= 1

\* The call of Score on the missing test has committed: the RunTest job and
\* the ScoreSubmission job are in the queue, the submission is not scored.
C20_Witness ==
    /\ NoTxOpen
    /\ Len(subs) >= 1
    /\ ~subs[1].Score.Valid
    /\ Missing(1) # {}
    /\ BagIn(NewJobRun(1, 1), jobs)
    /\ BagIn(NewJobScore(1), jobs)

====
